---- MODULE Spec2Model ----
(***************************************************************************)
(* Model of main.py: one run of the zone-visits report.                    *)
(*   load_reference_data -> fetch_visitors_data -> create_visitors_table   *)
(*   -> console.print                                                      *)
(* Cyrillic literals of the source are transliterated: the header of the   *)
(* time column is written "Vremya", the name column of the sheet is the    *)
(* field Name.  A time label is the natural number i standing for the i-th *)
(* label string in lexical order ("00:00", "00:30", ...), so that < on     *)
(* labels is Python's < on the raw strings.                                *)
(***************************************************************************)
EXTENDS Integers, Sequences, FiniteSets, TLC

\* ------------------------------------------------------------------ bounds
\* Size of the inputs of one run: reference rows + selected identifiers +
\* data records + time-slot triples.
MaxSize == 4
\* Number of distinct time labels.
MaxT == 2

\* ------------------------------------------------------------------ inputs
GUIDS == {"A", "B"}
\* A missing GUID cell of the sheet (pandas NaN).
NaN == "nan"
Metrics == {"entries", "exits"}
TimeLabels == 0 .. (MaxT - 1)
\* (entries, exits) of a slot: the two metrics differ and either may be 0.
Counts == {<<0, 5>>, <<2, 0>>}
\* [timeLabel, entries, exits]
Triples == {<<t, c[1], c[2]>> : t \in TimeLabels, c \in Counts}
PickerDate == "12.06.2020"

RECURSIVE SeqsOfLen(_, _)
SeqsOfLen(S, n) ==
    IF n = 0 THEN {<<>>}
    ELSE {Append(s, x) : s \in SeqsOfLen(S, n - 1), x \in S}

\* The sheets read: row i is {GUID: g, Name: "Zone i"}.
RefRow(g, i) == [GUID |-> g, Name |-> "Zone " \o ToString(i)]
ReferencesOfSize(n) ==
    {[i \in 1 .. n |-> RefRow(gs[i], i)] : gs \in SeqsOfLen(GUIDS \cup {NaN}, n)}
References == UNION {ReferencesOfSize(n) : n \in 0 .. MaxSize}

\* A record of `data`, [guid, _, _, timeSlots]: zone[0] is guid, zone[3] is
\* series.
RecordsOfSize(w) ==
    {[guid |-> g, series |-> s] : g \in GUIDS, s \in SeqsOfLen(Triples, w - 1)}

\* The `data` lists of w records and triples in all.
DataOfSize[w \in 0 .. MaxSize] ==
    IF w = 0 THEN {<<>>}
    ELSE UNION {{<<r>> \o d : r \in RecordsOfSize(k), d \in DataOfSize[w - k]} :
                  k \in 1 .. w}

\* The `selected` values of k identifiers: a list, or (k = 0) no key at all.
SelectedOfSize(k) ==
    {[has |-> TRUE, ids |-> s] : s \in SeqsOfLen(GUIDS, k)}
    \cup (IF k = 0 THEN {[has |-> FALSE, ids |-> <<>>]} ELSE {})

\* A decoded body whose `data` is a list.
Body(p, sel, d) ==
    [dataKind |-> "list", hasPickerDate |-> p, hasSelected |-> sel.has,
     selected |-> sel.ids, data |-> d]

\* A decoded body without a `data` key, or whose `data` is no list.
BadBody(kind) ==
    [dataKind |-> kind, hasPickerDate |-> TRUE, hasSelected |-> TRUE,
     selected |-> <<>>, data |-> <<>>]
NoBody == BadBody("none")

\* The decoded bodies of at most n selected identifiers, records and triples.
ResponseBodies(n) ==
    {BadBody("missing"), BadBody("notlist")}
    \cup UNION {{Body(p, sel, d) : p \in BOOLEAN, sel \in SelectedOfSize(k),
                                   d \in DataOfSize[w]} :
                  <<k, w>> \in {kw \in (0 .. n) \X (0 .. n) : kw[1] + kw[2] <= n}}

\* What requests.get / raise_for_status / response.json can do.
HttpErrors == {"timeout", "connection", "status", "badjson"}
\* What pd.read_excel and the column assertion can do.
LoadErrors == {"unreadable", "nocolumns"}

\* ------------------------------------------------------------------- state
VARIABLES
    pc,           \* position of main: load, fetch, warn, build, print, done
    metric,       \* --metric
    loadResult,   \* "none", "ok" or a member of LoadErrors
    reference,    \* the DataFrame returned by load_reference_data
    httpResult,   \* "none", "ok" or a member of HttpErrors
    getCount,     \* HTTP GETs issued
    objects,      \* the `objects` query parameter of the GET
    visitors,     \* the decoded body of the response
    log,          \* levels of the log records emitted, in order
    table,        \* the Table returned by create_visitors_table
    printed,      \* console.print calls
    calls,        \* the functions main has called, in order
    uncaught,     \* exception that left main uncaught ("none" if none)
    exitCode      \* -1 while running, then the exit status of the process

vars == <<pc, metric, loadResult, reference, httpResult, getCount, objects,
          visitors, log, table, printed, calls, uncaught, exitCode>>

NoTable == [built |-> FALSE, title |-> <<>>, columns |-> <<>>, rows |-> <<>>]

Init ==
    /\ pc = "load"
    /\ metric \in Metrics
    /\ loadResult = "none"
    /\ reference = <<>>
    /\ httpResult = "none"
    /\ getCount = 0
    /\ objects = ""
    /\ visitors = NoBody
    /\ log = <<>>
    /\ table = NoTable
    /\ printed = 0
    /\ calls = <<>>
    /\ uncaught = "none"
    /\ exitCode = -1

\* ------------------------------------------------- load_reference_data
\* logging.critical(...); sys.exit(1)
Fatal(lg) ==
    /\ log' = lg \o <<"CRITICAL">>
    /\ exitCode' = 1
    /\ pc' = "done"

\* An exception no handler catches: traceback, exit status 1.
Raise(exc) ==
    /\ uncaught' = exc
    /\ exitCode' = 1
    /\ pc' = "done"

LoadReferenceData ==
    /\ pc = "load"
    /\ calls' = Append(calls, "load_reference_data")
    /\ \/ \E err \in LoadErrors :
            /\ loadResult' = err
            /\ Fatal(Append(log, "INFO"))
            /\ UNCHANGED reference
       \/ \E df \in References :
            /\ loadResult' = "ok"
            /\ reference' = df
            /\ log' = Append(log, "INFO")
            /\ pc' = "fetch"
            /\ UNCHANGED exitCode
    /\ UNCHANGED <<metric, httpResult, getCount, objects, visitors, table,
                   printed, uncaught>>

\* ------------------------------------------------- fetch_visitors_data
\* Mutant of Guids: dropna() forgotten.
GuidsKeepNaN(df) == [i \in 1 .. Len(df) |-> df[i].GUID]

\* reference["GUID"].dropna().astype(str).tolist(); the cells are strings.
Guids(df) ==
    LET keep == SelectSeq(df, LAMBDA row : row.GUID # NaN)
    IN  [i \in 1 .. Len(keep) |-> keep[i].GUID]

\* ",".join(guids)
RECURSIVE Join(_)
Join(guids) ==
    IF guids = <<>> THEN ""
    ELSE IF Len(guids) = 1 THEN guids[1]
    ELSE guids[1] \o "," \o Join(Tail(guids))

\* Mutant of DataIsEmpty: the emptiness test forgotten.
DataIsEmptyNever(body) == FALSE

\* The assertion on the decoded body, then the emptiness test.
DataIsList(body) == body.dataKind = "list"
DataIsEmpty(body) == body.data = <<>>

FetchVisitorsData ==
    /\ pc = "fetch"
    /\ calls' = Append(calls, "fetch_visitors_data")
    /\ getCount' = getCount + 1
    /\ objects' = Join(Guids(reference))
    /\ \/ \E err \in HttpErrors :
            /\ httpResult' = err
            /\ visitors' = NoBody
            /\ Fatal(Append(log, "INFO"))
       \/ \E body \in ResponseBodies(MaxSize - Len(reference)) :
            /\ httpResult' = "ok"
            /\ visitors' = body
            /\ IF ~DataIsList(body) \/ DataIsEmpty(body)
               THEN Fatal(Append(log, "INFO"))
               ELSE /\ log' = Append(log, "INFO")
                    /\ pc' = "warn"
                    /\ UNCHANGED exitCode
    /\ UNCHANGED <<metric, loadResult, reference, table, printed, uncaught>>

\* ------------------------------------------------- main, lines 138-142
\* set(visitors["selected"]) - set(reference["GUID"])
MissingGuids(df, body) ==
    {body.selected[i] : i \in DOMAIN body.selected}
        \ {df[i].GUID : i \in DOMAIN df}

WarnMissing ==
    /\ pc = "warn"
    /\ IF ~visitors.hasSelected
       THEN /\ Raise("KeyError")
            /\ UNCHANGED log
       ELSE /\ log' = IF MissingGuids(reference, visitors) # {}
                      THEN Append(log, "WARNING")
                      ELSE log
            /\ pc' = "build"
            /\ UNCHANGED <<uncaught, exitCode>>
    /\ UNCHANGED <<metric, loadResult, reference, httpResult, getCount, objects,
                   visitors, table, printed, calls>>

\* ------------------------------------------------- create_visitors_table
Last(S) == CHOOSE i \in S : \A j \in S : j <= i
First(S) == CHOOSE i \in S : \A j \in S : i <= j

\* Mutant of GuidToName: the first row of a GUID wins.
GuidToNameFirst(df) ==
    [g \in {df[i].GUID : i \in DOMAIN df} |->
        df[First({i \in DOMAIN df : df[i].GUID = g})].Name]

\* dict(zip(reference["GUID"], reference["Name"])): a later row overwrites.
GuidToName(df) ==
    [g \in {df[i].GUID : i \in DOMAIN df} |->
        df[Last({i \in DOMAIN df : df[i].GUID = g})].Name]

\* guid_to_name.get(guid, guid)
ColumnName(guid_to_name, guid) ==
    IF guid \in DOMAIN guid_to_name THEN guid_to_name[guid] ELSE guid

\* table.add_column("Vremya"), then one add_column per selected guid.
Columns(df, zone_guids) ==
    <<"Vremya">> \o
    [i \in 1 .. Len(zone_guids) |-> ColumnName(GuidToName(df), zone_guids[i])]

\* {zone[0]: zone[3] for zone in data if zone[0] in zone_guids}: a later
\* record of the same guid overwrites.
GuidDataMap(data, zone_guids) ==
    LET sel == {zone_guids[i] : i \in DOMAIN zone_guids}
        keys == {data[i].guid : i \in DOMAIN data} \cap sel
    IN  [g \in keys |-> data[Last({i \in DOMAIN data : data[i].guid = g})].series]

\* time_slots_set
TimeSlotsSet(guid_data_map) ==
    UNION {{guid_data_map[g][i][1] : i \in DOMAIN guid_data_map[g]} :
             g \in DOMAIN guid_data_map}

\* Mutant of Sorted: descending order.
RECURSIVE SortedDescending(_)
SortedDescending(S) ==
    IF S = {} THEN <<>>
    ELSE LET m == Last(S) IN <<m>> \o SortedDescending(S \ {m})

\* sorted(time_slots_set)
RECURSIVE Sorted(_)
Sorted(S) ==
    IF S = {} THEN <<>>
    ELSE LET m == First(S) IN <<m>> \o Sorted(S \ {m})

\* Mutant of SlotValue: the two metrics exchanged.
SlotValueSwapped(slot, m) ==
    IF m = "entries" THEN ToString(slot[3]) ELSE ToString(slot[2])

\* str(slot[1]) if metric == Metric.ENTRIES else str(slot[2])
SlotValue(slot, m) ==
    IF m = "entries" THEN ToString(slot[2]) ELSE ToString(slot[3])

\* Lines 96-100: "0", or the value of the first slot of the series with the
\* row's time label.
CellValue(guid_data_map, guid, time, m) ==
    LET series == IF guid \in DOMAIN guid_data_map
                  THEN guid_data_map[guid] ELSE <<>>
        hits == {i \in DOMAIN series : series[i][1] = time}
    IN  IF hits = {} THEN "0" ELSE SlotValue(series[First(hits)], m)

\* Mutant of Markup: the dim marker on every cell.
MarkupAlways(value) == "[dim]" \o value \o "[/]"

\* f"[dim]{value}[/]" if value == "0" else value
Markup(value) == IF value = "0" THEN "[dim]" \o value \o "[/]" ELSE value

\* Lines 93-102: add_row(time, cell, cell, ...) for each sorted time.
Rows(data, zone_guids, m) ==
    LET guid_data_map == GuidDataMap(data, zone_guids)
        sorted_times == Sorted(TimeSlotsSet(guid_data_map))
    IN  [r \in 1 .. Len(sorted_times) |->
            [time |-> sorted_times[r],
             cells |-> [c \in 1 .. Len(zone_guids) |->
                 Markup(CellValue(guid_data_map, zone_guids[c],
                                  sorted_times[r], m))]]]

\* visitors.get("selected", [])
ZoneGuids(body) == IF body.hasSelected THEN body.selected ELSE <<>>

CreateVisitorsTable ==
    /\ pc = "build"
    /\ calls' = Append(calls, "create_visitors_table")
    /\ IF ~visitors.hasPickerDate
       THEN /\ Raise("KeyError")
            /\ UNCHANGED <<log, table>>
       ELSE IF ZoneGuids(visitors) = <<>>
       THEN /\ Fatal(log)
            /\ UNCHANGED <<table, uncaught>>
       ELSE /\ table' = [built |-> TRUE,
                         title |-> <<metric, PickerDate>>,
                         columns |-> Columns(reference, ZoneGuids(visitors)),
                         rows |-> Rows(visitors.data, ZoneGuids(visitors),
                                       metric)]
            /\ pc' = "print"
            /\ UNCHANGED <<log, uncaught, exitCode>>
    /\ UNCHANGED <<metric, loadResult, reference, httpResult, getCount, objects,
                   visitors, printed>>

\* ------------------------------------------------- main, line 145 and return
PrintTable ==
    /\ pc = "print"
    /\ printed' = printed + 1
    /\ exitCode' = 0
    /\ pc' = "done"
    /\ UNCHANGED <<metric, loadResult, reference, httpResult, getCount, objects,
                   visitors, log, table, calls, uncaught>>

Next ==
    \/ LoadReferenceData
    \/ FetchVisitorsData
    \/ WarnMissing
    \/ CreateVisitorsTable
    \/ PrintTable

Spec == Init /\ [][Next]_vars

\* ------------------------------------------------------------ properties
Sel == visitors.selected
Data == visitors.data
RefGuids == {reference[i].GUID : i \in DOMAIN reference}
\* fetch_visitors_data returned the body to main.
Fetched ==
    httpResult = "ok" /\ visitors.dataKind = "list" /\ visitors.data # <<>>
EmptySelection == ~visitors.hasSelected \/ Sel = <<>>
LastLog == IF log = <<>> THEN "none" ELSE log[Len(log)]
Logged(level) == \E i \in DOMAIN log : log[i] = level
Called(f) == \E i \in DOMAIN calls : calls[i] = f

\* The text of the requested metric of a slot.
MetricText(slot) == ToString(IF metric = "entries" THEN slot[2] ELSE slot[3])
\* A cell shows the value text v, with or without the dim marker.
Shows(cell, v) == cell = v \/ cell = "[dim]" \o v \o "[/]"
ZeroCell == "[dim]0[/]"
\* The records of zone z in `data`, and the one the builder keeps.
RecordsOf(z) == {i \in DOMAIN Data : Data[i].guid = z}
KeptSeries(z) ==
    Data[CHOOSE i \in RecordsOf(z) : \A j \in RecordsOf(z) : j <= i].series
HasLabel(series, t) == \E j \in DOMAIN series : series[j][1] = t
FirstWithLabel(series, t) ==
    series[CHOOSE j \in DOMAIN series :
               /\ series[j][1] = t
               /\ \A k \in 1 .. (j - 1) : series[k][1] # t]
RowsAt(t) == {r \in DOMAIN table.rows : table.rows[r].time = t}
RowTimes == {table.rows[r].time : r \in DOMAIN table.rows}

\* C1 as stated: every triple (t, entries, exits) of every record of a selected
\* zone z is shown in the cell at (t, z), by the requested metric.
C1_AsStated ==
    table.built =>
        \A c \in DOMAIN Sel : \A i \in RecordsOf(Sel[c]) :
            \A j \in DOMAIN Data[i].series :
                /\ RowsAt(Data[i].series[j][1]) # {}
                /\ \A r \in RowsAt(Data[i].series[j][1]) :
                      Shows(table.rows[r].cells[c], MetricText(Data[i].series[j]))

\* C1 amended: for every selected zone z and every label t of the series of
\* the last record of z in `data`, the table has a row t whose cell at z shows
\* the requested metric of the first triple of that series labelled t.
C1_FirstTripleOfLastRecord ==
    table.built =>
        \A c \in DOMAIN Sel : RecordsOf(Sel[c]) # {} =>
            \A t \in TimeLabels : HasLabel(KeptSeries(Sel[c]), t) =>
                /\ RowsAt(t) # {}
                /\ \A r \in RowsAt(t) :
                      Shows(table.rows[r].cells[c],
                            MetricText(FirstWithLabel(KeptSeries(Sel[c]), t)))

\* A table was printed for a selected zone whose series has two triples of one
\* label, and the cell of that label shows a non-zero count.
C1_Witness ==
    /\ pc = "done" /\ printed = 1
    /\ \E c \in DOMAIN Sel :
          /\ Cardinality(RecordsOf(Sel[c])) = 1
          /\ \E t \in TimeLabels :
                /\ Cardinality({j \in DOMAIN KeptSeries(Sel[c]) :
                                   KeptSeries(Sel[c])[j][1] = t}) = 2
                /\ \E r \in RowsAt(t) : table.rows[r].cells[c] \in {"2", "5"}

\* C2: a cell at (row t, selected zone z) where no record of z in `data` has a
\* triple labelled t (z may have no record at all) is the dimmed zero, and a
\* cell carries the dim marker exactly when its value text is "0": every cell
\* is either the dimmed zero or the bare text of a non-zero count.
C2_ZeroCells ==
    table.built =>
        \A r \in DOMAIN table.rows : \A c \in DOMAIN Sel :
            /\ (\A i \in RecordsOf(Sel[c]) :
                    ~HasLabel(Data[i].series, table.rows[r].time))
                  => table.rows[r].cells[c] = ZeroCell
            /\ \/ table.rows[r].cells[c] = ZeroCell
               \/ \E cnt \in Counts : \E k \in {1, 2} :
                     /\ cnt[k] # 0
                     /\ table.rows[r].cells[c] = ToString(cnt[k])

\* A printed table with a row whose label one selected zone lacks (it has no
\* record at all) next to a zone showing a non-zero count in that row.
C2_Witness ==
    /\ pc = "done" /\ printed = 1
    /\ \E r \in DOMAIN table.rows : \E c, d \in DOMAIN Sel :
          /\ RecordsOf(Sel[c]) = {}
          /\ table.rows[r].cells[c] = ZeroCell
          /\ table.rows[r].cells[d] \in {"2", "5"}

\* The name the reference gives guid g: that of the last row whose GUID is g.
HasRefRow(g) == \E i \in DOMAIN reference : reference[i].GUID = g
RefName(g) ==
    reference[CHOOSE i \in DOMAIN reference :
                 /\ reference[i].GUID = g
                 /\ \A j \in DOMAIN reference :
                       reference[j].GUID = g => j <= i].Name

\* C3: the table has len(selected) + 1 columns, the time column first, then
\* one column per element of `selected` in order, named by the reference (the
\* last row of a duplicated GUID) or, for a GUID not in the reference, by the
\* raw GUID.
C3_Columns ==
    table.built =>
        /\ Len(table.columns) = Len(Sel) + 1
        /\ table.columns[1] = "Vremya"
        /\ \A i \in DOMAIN Sel :
              table.columns[i + 1] =
                  IF HasRefRow(Sel[i]) THEN RefName(Sel[i]) ELSE Sel[i]
        /\ \A r \in DOMAIN table.rows : Len(table.rows[r].cells) = Len(Sel)

\* A printed table with a selected GUID that two rows of the reference name
\* differently.
C3_Witness ==
    /\ pc = "done" /\ printed = 1
    /\ \E i \in DOMAIN Sel :
          /\ Cardinality({j \in DOMAIN reference : reference[j].GUID = Sel[i]}) = 2
          /\ table.columns[i + 1] = "Zone 2"

\* The labels of all records of selected zones, and those of the kept records.
SelectedZones == {Sel[c] : c \in DOMAIN Sel}
LabelsOfAllRecords ==
    UNION {{Data[i].series[j][1] : j \in DOMAIN Data[i].series} :
             i \in {k \in DOMAIN Data : Data[k].guid \in SelectedZones}}
LabelsOfKeptRecords ==
    {t \in TimeLabels :
        \E z \in SelectedZones : RecordsOf(z) # {} /\ HasLabel(KeptSeries(z), t)}
Ascending ==
    \A r, q \in DOMAIN table.rows :
        r < q => table.rows[r].time < table.rows[q].time

\* C4 as stated: the rows are the distinct labels of all `data` records whose
\* GUID is selected, strictly ascending.
C4_AsStated ==
    table.built =>
        /\ RowTimes = LabelsOfAllRecords
        /\ Ascending

\* C4 amended: the rows are the distinct labels of the series of the last
\* `data` record of each selected GUID, strictly ascending, none repeated.
C4_RowsOfKeptRecords ==
    table.built =>
        /\ RowTimes = LabelsOfKeptRecords
        /\ Ascending

\* A printed table of two rows whose labels come in descending order in the
\* series of a selected zone.
C4_Witness ==
    /\ pc = "done" /\ printed = 1
    /\ Len(table.rows) = 2
    /\ \E i \in DOMAIN Data :
          /\ Data[i].guid \in SelectedZones
          /\ Len(Data[i].series) = 2
          /\ Data[i].series[1][1] > Data[i].series[2][1]

\* C5 as stated: when the fetched response's `selected` is an empty list or is
\* absent, the run ends with exit status 1 right after a critical log record,
\* with no exception raised before the check, and no table is built or printed.
C5_AsStated ==
    (Fetched /\ EmptySelection) =>
        /\ ~table.built /\ printed = 0
        /\ pc = "done" =>
              exitCode = 1 /\ LastLog = "CRITICAL" /\ uncaught = "none"

\* C6: fetch_visitors_data returns to main only a body whose `data` is a
\* non-empty list; after any other outcome of the request the run is over with
\* exit status 1, a critical record last in the log, and the table builder
\* never called.
C6_FetchValidates ==
    /\ pc \in {"warn", "build", "print"} => Fetched
    /\ Called("create_visitors_table") => Fetched
    /\ (Called("fetch_visitors_data") /\ ~Fetched) =>
          /\ pc = "done" /\ exitCode = 1
          /\ LastLog = "CRITICAL" /\ uncaught = "none"
          /\ calls = <<"load_reference_data", "fetch_visitors_data">>
          /\ ~table.built /\ printed = 0

\* The server answered with an empty `data` list and the run ended fatally.
C6_Witness ==
    /\ pc = "done" /\ exitCode = 1
    /\ httpResult = "ok" /\ visitors.dataKind = "list" /\ visitors.data = <<>>

\* The cells of column c come from `data`.
PopulatedFromData(c) ==
    RecordsOf(Sel[c]) # {} =>
        \A t \in TimeLabels : HasLabel(KeptSeries(Sel[c]), t) =>
            \E r \in RowsAt(t) :
                Shows(table.rows[r].cells[c],
                      MetricText(FirstWithLabel(KeptSeries(Sel[c]), t)))

\* C7 as stated: once main has compared `selected` with the reference, a
\* warning is in the log exactly when some selected identifier is not a GUID
\* of the reference; such a run still ends with exit status 0 and the table
\* printed, the column of each such zone headed by its raw GUID and filled
\* from `data`.
C7_AsStated ==
    /\ (Fetched /\ visitors.hasSelected /\ pc \in {"build", "print", "done"}) =>
          (Logged("WARNING") <=> SelectedZones \ RefGuids # {})
    /\ (Fetched /\ visitors.hasSelected /\ pc = "done"
          /\ SelectedZones \ RefGuids # {}) =>
          /\ exitCode = 0 /\ printed = 1 /\ table.built
          /\ \A c \in DOMAIN Sel : Sel[c] \notin RefGuids =>
                table.columns[c + 1] = Sel[c] /\ PopulatedFromData(c)

\* The fatal conditions the specification lists; an absent `selected` is
\* counted with the empty one.
ListedFatal ==
    \/ loadResult \in LoadErrors
    \/ httpResult \in HttpErrors
    \/ httpResult = "ok" /\ ~Fetched
    \/ Fetched /\ EmptySelection

\* C8 as stated: a finished run has exit status 0 and printed the table once,
\* or exit status 1 and printed nothing; the status is 1 exactly when a listed
\* fatal condition occurred, and nothing runs after that condition.
C8_AsStated ==
    /\ pc # "done" => exitCode = -1 /\ printed = 0
    /\ pc = "done" =>
          /\ \/ exitCode = 0 /\ printed = 1
             \/ exitCode = 1 /\ printed = 0
          /\ exitCode = 1 <=> ListedFatal
          /\ loadResult \in LoadErrors => calls = <<"load_reference_data">>
          /\ (loadResult = "ok" /\ ~Fetched) =>
                calls = <<"load_reference_data", "fetch_visitors_data">>

\* C9 as stated: called with a body that fetch_visitors_data returned and whose
\* `selected` is non-empty, create_visitors_table returns a table, without
\* exiting the process and without raising.
C9_AsStated ==
    (Called("create_visitors_table") /\ Fetched /\ ZoneGuids(visitors) # <<>>) =>
        table.built /\ uncaught = "none" /\ exitCode # 1

\* The comma-joined GUID cells of the sheet, missing cells left out.
RECURSIVE JoinedGuids(_)
JoinedGuids(df) ==
    IF df = <<>> THEN ""
    ELSE LET front == SubSeq(df, 1, Len(df) - 1)
             g == df[Len(df)].GUID
         IN  IF g = NaN THEN JoinedGuids(front)
             ELSE IF \A i \in DOMAIN front : front[i].GUID = NaN THEN g
             ELSE JoinedGuids(front) \o "," \o g

\* C10: main calls the loader, the fetcher and the builder in that order, each
\* at most once; at most one GET is issued, only after the reference was
\* loaded, with `objects` the comma-joined reference GUIDs without the missing
\* ones; the builder is called only with a validated response.
C10_Sequential ==
    /\ \E n \in 0 .. 3 :
          calls = SubSeq(<<"load_reference_data", "fetch_visitors_data",
                           "create_visitors_table">>, 1, n)
    /\ getCount = (IF Called("fetch_visitors_data") THEN 1 ELSE 0)
    /\ getCount = 1 => loadResult = "ok" /\ objects = JoinedGuids(reference)
    /\ getCount = 0 => objects = ""
    /\ Called("create_visitors_table") => Fetched /\ pc \in {"print", "done"}
    /\ printed = 1 => Called("create_visitors_table") /\ table.built

\* The builder was called in a run whose sheet has two GUIDs and a row without
\* GUID.
C10_Witness ==
    /\ Called("create_visitors_table") /\ getCount = 1
    /\ objects = "A,B"
    /\ \E j \in DOMAIN reference : reference[j].GUID = NaN
====
